---- MODULE Spec2Model ----
(***************************************************************************)
(* Model of macd_early_alert_app.py (src/1.0.py): the MACD early-signal    *)
(* detector macd_early_signal, the notifier send_telegram and the polling  *)
(* loop background_monitor with its dedup ledger                           *)
(* st.session_state.sent_signals.                                          *)
(*                                                                         *)
(* Prices and oscillator values are fixed-point integers (price ticks);    *)
(* every division of the exponential average rounds to the nearest tick,   *)
(* as a floating-point division rounds to the nearest representable value. *)
(* The comparisons against 0.6, 0.75, 1.3 and 0.4 are cross-multiplied so  *)
(* that they are exact on integers.                                        *)
(***************************************************************************)
EXTENDS Integers, Sequences, FiniteSets, TLC

(***************************************************************************)
(* Bounds of the model                                                     *)
(***************************************************************************)
\* bars a downloaded frame may have beyond the 35 the detector asks for
MaxExtraBars == 1
\* bars at the end of a frame that move freely
TailLen == 3
\* symbols of the watch list
NumSymbols == 2
\* chat ids of TELEGRAM_CHAT_IDS
NumChats == 2
\* last-bar timestamps the data source may report, 0..MaxTs, in ticks
MaxTs == 1
\* the observed calls of send_telegram are counted up to this number
MaxPushes == 2
\* background_monitor threads of the concurrent scenario
NumRacers == 2

(***************************************************************************)
(* Program constants                                                       *)
(***************************************************************************)
FastSpan   == 12
SlowSpan   == 26
SignalSpan == 9
MinHistory == 35
StdWindow  == 20
MinRows    == 20
\* ticks of a timestamp per minute of the ledger key
TicksPerMinute == 3

(***************************************************************************)
(* Input frames.  A frame is the Close column of a DataFrame: n bars that  *)
(* start at BasePrice; the bars before the last TailLen follow shape, a    *)
(* trend (in steps per bar) for each third of them, and the last TailLen   *)
(* bars move by the steps of tail.                                         *)
(***************************************************************************)
BasePrice == 50000
PriceStep == 250

Deltas == {-2, -1, 0, 1, 2}
Shapes == {<<-1, -1, -1>>, <<0, 0, 0>>, <<1, 1, 1>>, <<1, -1, 0>>, <<-1, 1, 0>>}
Tails  == [1..TailLen -> Deltas]

\* the move from bar i - 1 to bar i, in steps
Move(n, shape, tail, i) ==
    LET third == (n - TailLen - 1) \div 3
    IN  IF i > n - TailLen THEN tail[i - (n - TailLen)]
        ELSE IF i - 1 <= third THEN shape[1]
        ELSE IF i - 1 <= 2 * third THEN shape[2]
        ELSE shape[3]

RECURSIVE CloseAcc(_, _, _, _)
CloseAcc(n, shape, tail, acc) ==
    IF Len(acc) >= n THEN acc
    ELSE CloseAcc(n, shape, tail,
                  Append(acc, acc[Len(acc)]
                              + PriceStep * Move(n, shape, tail, Len(acc) + 1)))

Close(n, shape, tail) ==
    IF n = 0 THEN << >> ELSE CloseAcc(n, shape, tail, <<BasePrice>>)

(***************************************************************************)
(* pandas: Series.ewm(span, adjust=False).mean()                           *)
(*   y[0] = x[0];  y[t] = (1 - a) * y[t-1] + a * x[t],  a = 2 / (span + 1) *)
(***************************************************************************)
RDiv(a, b) == (2 * a + b) \div (2 * b)

RECURSIVE EwmAcc(_, _, _)
EwmAcc(x, span, acc) ==
    IF Len(acc) >= Len(x) THEN acc
    ELSE EwmAcc(x, span,
                Append(acc, IF Len(acc) = 0 THEN x[1]
                            ELSE RDiv((span - 1) * acc[Len(acc)]
                                      + 2 * x[Len(acc) + 1], span + 1)))

\* the average seeded with 0 instead of the first value
ewm_mean_from_zero(x, span) ==
    IF Len(x) = 0 THEN << >> ELSE EwmAcc(x, span, <<0>>)

ewm_mean(x, span) == EwmAcc(x, span, << >>)

Abs(v) == IF v < 0 THEN 0 - v ELSE v

RECURSIVE SumSeq(_)
SumSeq(s) == IF Len(s) = 0 THEN 0 ELSE s[1] + SumSeq(Tail(s))

LastN(s, k) == SubSeq(s, Len(s) - k + 1, Len(s))

(***************************************************************************)
(* macd_early_signal(df)                                                   *)
(***************************************************************************)
\* 0.6, 0.75, 1.3 and 0.4 as fractions
HookNum   == 6
HookDen   == 10
RedNum    == 3
RedDen    == 4
GreenNum  == 13
GreenDen  == 10
CloseNum  == 2
CloseDen  == 5
HistScale == 2

\* (dif - dea).abs().rolling(20).std().iloc[-1] is NaN when fewer than 20
\* values are in the window
StdIsNaN(gap) == Len(gap) < StdWindow

\* distance < std20 * 0.4, squared: std20^2 = (n*Q - S^2) / (n*(n-1)) with
\* S and Q the sum and the sum of squares of the window (ddof = 1)
BelowStd(distance, gap) ==
    LET w == LastN(gap, StdWindow)
        S == SumSeq(w)
        Q == SumSeq([i \in 1..StdWindow |-> w[i] * w[i]])
    IN  CloseDen * CloseDen * StdWindow * (StdWindow - 1) * distance * distance
          < CloseNum * CloseNum * (StdWindow * Q - S * S)

hook_up(d2, d1, d0) ==
    d1 <= d2 /\ d0 > d1 /\ HookDen * (d0 - d1) >= HookNum * Abs(d1 - d2)

hook_down(d2, d1, d0) ==
    d1 >= d2 /\ d0 < d1 /\ HookDen * (d1 - d0) >= HookNum * Abs(d1 - d2)

shrink_red(h2, h1, h0) ==
    h2 > h1 /\ h1 > 0 /\ 0 < h0 /\ RedDen * h0 < RedNum * h1

shrink_green(h2, h1, h0) ==
    h2 < h1 /\ h1 < 0 /\ GreenDen * h0 > GreenNum * h1 /\ h0 < 0

very_close(dif, dea) ==
    LET gap == [i \in 1..Len(dif) |-> Abs(dif[i] - dea[i])]
    IN  IF StdIsNaN(gap) THEN TRUE
        ELSE BelowStd(Abs(dif[Len(dif)] - dea[Len(dea)]), gap)

\* the rule without its directional constraint
bull_rule_any_side(hook, shrink, close, d0, s0) == (hook \/ shrink) /\ close

bear_rule_any_side(hook, shrink, close, d0, s0) == (hook \/ shrink) /\ close

bull_rule(hook, shrink, close, d0, s0) == (hook \/ shrink) /\ close /\ d0 < s0

bear_rule(hook, shrink, close, d0, s0) == (hook \/ shrink) /\ close /\ d0 > s0

HasHistory(n) == ~(n < MinHistory)

\* the subtraction the other way round
macd_histogram_reversed(dif, dea) ==
    [i \in 1..Len(dif) |-> (dea[i] - dif[i]) * HistScale]

\* histogram = (dif - dea) * 2
macd_histogram(dif, dea) ==
    [i \in 1..Len(dif) |-> (dif[i] - dea[i]) * HistScale]

macd_early_signal(close) ==
    LET n    == Len(close)
        fast == ewm_mean(close, FastSpan)
        slow == ewm_mean(close, SlowSpan)
        dif  == [i \in 1..n |-> fast[i] - slow[i]]
        dea  == ewm_mean(dif, SignalSpan)
        histogram == macd_histogram(dif, dea)
    IN  IF ~HasHistory(n)
        THEN [bull_early |-> FALSE, bear_early |-> FALSE,
              dif |-> dif, signal |-> dea, histogram |-> histogram]
        ELSE LET d2 == dif[n - 2]
                 d1 == dif[n - 1]
                 d0 == dif[n]
                 s0 == dea[n]
                 h2 == histogram[n - 2]
                 h1 == histogram[n - 1]
                 h0 == histogram[n]
                 vc == very_close(dif, dea)
             IN  [dif |-> dif, signal |-> dea, histogram |-> histogram,
                  bull_early |-> bull_rule(hook_up(d2, d1, d0),
                                           shrink_green(h2, h1, h0), vc, d0, s0),
                  bear_early |-> bear_rule(hook_down(d2, d1, d0),
                                           shrink_red(h2, h1, h0), vc, d0, s0)]

(***************************************************************************)
(* Configuration read at import time                                       *)
(***************************************************************************)
default_tickers   == <<"TSLA", "NVDA", "AAPL", "META">>
SYMBOLS           == SubSeq(default_tickers, 1, NumSymbols)
TELEGRAM_CHAT_IDS == 1..NumChats

\* refresh_options and the selectbox's default, index=2 (the third entry)
refresh_options == <<30, 45, 60, 90, 120, 180, 300>>
DefaultRefreshIndex == 3
\* the entries the user selects: the first one and the default
RefreshChoices == {refresh_options[1], refresh_options[DefaultRefreshIndex]}
\* st.session_state.get("refresh_interval", 60)
DefaultInterval == 60
\* the keys of st.session_state the script uses
SessionKeys == {"sent_signals", "refresh_interval", "bg_started"}

Kinds == {"bull", "bear"}
Other(kind) == IF kind = "bull" THEN "bear" ELSE "bull"

\* df.index[-1].strftime("%Y%m%d%H%M") drops the seconds of the timestamp
strftime(ts) == ts \div TicksPerMinute
\* f"{symbol}_{last_ts}"
KeyOf(symbol, ts) == <<symbol, strftime(ts)>>

Timestamps == 0..MaxTs
Keys == {KeyOf(SYMBOLS[i], ts) : i \in 1..Len(SYMBOLS), ts \in Timestamps}

(***************************************************************************)
(* State                                                                   *)
(***************************************************************************)
VARIABLES
    arg,          \* the frame handed to a stand-alone call of macd_early_signal
    macd,         \* what that call returned (NoResult before it returns)
    threads,      \* the background_monitor threads that run
    sent_signals, \* st.session_state.sent_signals: dict key -> "bull" | "bear"
    pc,           \* per thread: the statement it is at
    idx,          \* per thread: position of the for loop in SYMBOLS
    df,           \* per thread: what ultimate_download returned (length, last ts)
    result,       \* per thread: bull_early and bear_early of macd_early_signal
    key,          \* per thread: the ledger key of the symbol in hand
    push,         \* per thread: what the call of send_telegram just made did
    processed,    \* per thread: the symbols the for loop entered in this cycle
    firstFail,    \* per thread: position of the first symbol of this cycle that
                  \* was given up (exception, empty or short frame), 0 if none
    interval,     \* per thread: the refresh interval read as the cycle began
    asleep,       \* per thread: seconds of the time.sleep in progress, else 0
    session_keys, \* the keys present in st.session_state
    refresh_interval, \* st.session_state.refresh_interval
    REFRESH_INTERVAL, \* the sidebar's refresh interval in the script run
    script,       \* the script run: "none" before the first, "view" when the
                  \* main view is to come, "done" when the run has ended
    dl,           \* a stand-alone call of ultimate_download: where it is, hist
                  \* (its rows), the strategies tried, what it returned
    watch,        \* the (key, kind) whose notifications are observed
    pushes,       \* calls of send_telegram for watch (counted up to MaxPushes)
    push_failed,  \* a call of send_telegram for watch failed to deliver
    flipped,      \* watch's key was classified as the other kind at some time
    runLen,       \* successive cycles that classified watch's key as watch's kind
    runPushes,    \* calls of send_telegram for watch in those cycles
    heldAtStart   \* the ledger held watch's kind for its key when they began

locals == <<pc, idx, df, result, key, push, processed, firstFail, interval, asleep>>
ghost  == <<watch, pushes, push_failed, flipped, runLen, runPushes, heldAtStart>>
session == <<session_keys, refresh_interval, REFRESH_INTERVAL, script>>
vars   == <<arg, macd, threads, sent_signals, locals, ghost, session, dl>>

NoResult == [called |-> FALSE]
NoFrame  == [n |-> -1, ts |-> -1]
NoFlags  == [bull_early |-> FALSE, bear_early |-> FALSE]
NoKey    == <<"", -1>>
NoPush   == [posts |-> 0, errors |-> 0, raised |-> FALSE]
NoWatch  == [key |-> NoKey, kind |-> "none", what |-> "none"]
NoInterval == 0
NoDownload == [pc |-> "none"]

Lengths == {0, 2, MinRows, MinHistory - 1} \cup (MinHistory..(MinHistory + MaxExtraBars))
Frames  == [n : Lengths, shape : Shapes, tail : Tails]
CloseOf(f) == Close(f.n, f.shape, f.tail)

Flags(r) == [bull_early |-> r.bull_early, bear_early |-> r.bear_early]

\* ultimate_download returns an empty frame or one of at least 20 rows
DownloadLengths == {n \in Lengths : n = 0 \/ n >= MinRows}

\* what macd_early_signal returns on the frames of each length
DetectionTable ==
    {<<f.n, Flags(macd_early_signal(CloseOf(f)))>> : f \in {g \in Frames : g.n >= MinRows}}
Detections(n) == {p[2] : p \in {q \in DetectionTable : q[1] = n}}


(***************************************************************************)
(* The ledger: dict.get and dict item assignment                           *)
(***************************************************************************)
Get(d, k) == IF k \in DOMAIN d THEN d[k] ELSE "None"
Put(d, k, v) == [x \in DOMAIN d \cup {k} |-> IF x = k THEN v ELSE d[x]]

(***************************************************************************)
(* send_telegram(message): one requests.post per chat id; a post that      *)
(* raises is swallowed by "except: pass" and the loop goes on              *)
(***************************************************************************)
PostResults == {"ok", "error"}
PostOutcomes == [TELEGRAM_CHAT_IDS -> PostResults]

OnPostError(acc) == [acc EXCEPT !.posts = @ + 1, !.errors = @ + 1]

RECURSIVE PostAll(_, _, _)
PostAll(outcome, i, acc) ==
    IF i > NumChats \/ acc.raised THEN acc
    ELSE PostAll(outcome, i + 1,
                 IF outcome[i] = "error" THEN OnPostError(acc)
                 ELSE [acc EXCEPT !.posts = @ + 1])

send_telegram(outcome) == PostAll(outcome, 1, NoPush)

(***************************************************************************)
(* background_monitor                                                      *)
(***************************************************************************)
Min(a, b) == IF a < b THEN a ELSE b

Flag(r, kind) == IF kind = "bull" THEN r.bull_early ELSE r.bear_early

PcCheck(kind)  == IF kind = "bull" THEN "check_bull" ELSE "check_bear"
\* the ledger is written right after the check, without the send
PcSendSkipped(kind) == IF kind = "bull" THEN "record_bull" ELSE "record_bear"
PcSend(kind)   == IF kind = "bull" THEN "send_bull" ELSE "send_bear"
PcRecord(kind) == IF kind = "bull" THEN "record_bull" ELSE "record_bear"

\* time.sleep(st.session_state.refresh_interval)
SleepDurationLive(t) == refresh_interval

\* time.sleep(interval)
SleepDuration(t) == interval[t]

\* the for loop takes the next symbol, or ends and the cycle goes to sleep
Continue(t) ==
    /\ idx' = [idx EXCEPT ![t] = @ + 1]
    /\ pc' = [pc EXCEPT ![t] = IF idx[t] + 1 > Len(SYMBOLS) THEN "sleep"
                                ELSE "download"]
    /\ asleep' = [asleep EXCEPT ![t] = IF idx[t] + 1 > Len(SYMBOLS)
                                       THEN SleepDuration(t) ELSE 0]
    /\ df' = [df EXCEPT ![t] = NoFrame]
    /\ result' = [result EXCEPT ![t] = NoFlags]
    /\ key' = [key EXCEPT ![t] = NoKey]
    /\ push' = [push EXCEPT ![t] = NoPush]

\* except: break (the for loop is left)
OnExceptionBreak(t) ==
    /\ pc' = [pc EXCEPT ![t] = "sleep"]
    /\ asleep' = [asleep EXCEPT ![t] = SleepDuration(t)]
    /\ idx' = [idx EXCEPT ![t] = Len(SYMBOLS) + 1]
    /\ df' = [df EXCEPT ![t] = NoFrame]
    /\ result' = [result EXCEPT ![t] = NoFlags]
    /\ key' = [key EXCEPT ![t] = NoKey]
    /\ push' = [push EXCEPT ![t] = NoPush]

\* no handler: the exception ends the thread
OnExceptionExit(t) ==
    /\ pc' = [pc EXCEPT ![t] = "terminated"]
    /\ UNCHANGED <<idx, df, result, key, push, asleep>>

\* except: continue
OnException(t) == Continue(t)

\* after the bull block comes the bear block, after the bear block the next symbol
After(t, kind) ==
    IF kind = "bull"
    THEN /\ pc' = [pc EXCEPT ![t] = PcCheck("bear")]
         /\ push' = [push EXCEPT ![t] = NoPush]
         /\ UNCHANGED <<idx, df, result, key, asleep>>
    ELSE Continue(t)

\* watch observes either the number of notifications of its (key, kind) or
\* the run of successive cycles that classify its key as its kind
Counting == watch.what = "count"
Running  == watch.what = "run"

\* a run ends when the symbol of watch's key is handled without its key
\* being classified as watch's kind
EndRun ==
    /\ runLen' = 0
    /\ runPushes' = 0
    /\ heldAtStart' = FALSE

Unclassified(t) ==
    /\ IF Running /\ SYMBOLS[idx[t]] = watch.key[1] THEN EndRun
       ELSE UNCHANGED <<runLen, runPushes, heldAtStart>>
    /\ UNCHANGED <<watch, pushes, push_failed, flipped>>

Classified(t, k, r) ==
    /\ IF Running /\ k = watch.key /\ Flag(r, watch.kind)
       THEN IF runLen = 0
            THEN /\ runLen' = 1
                 /\ runPushes' = 0
                 /\ heldAtStart' = (Get(sent_signals, k) = watch.kind)
            ELSE /\ runLen' = Min(runLen + 1, 2)
                 /\ UNCHANGED <<runPushes, heldAtStart>>
       ELSE IF Running /\ SYMBOLS[idx[t]] = watch.key[1] THEN EndRun
       ELSE UNCHANGED <<runLen, runPushes, heldAtStart>>
    /\ flipped' = (flipped \/ (Counting /\ k = watch.key /\ Flag(r, Other(watch.kind))))
    /\ UNCHANGED <<watch, pushes, push_failed>>

Pushed(t, kind, p) ==
    /\ IF Counting /\ key[t] = watch.key /\ kind = watch.kind
       THEN /\ pushes' = Min(pushes + 1, MaxPushes)
            /\ push_failed' = (push_failed \/ p.errors > 0)
       ELSE UNCHANGED <<pushes, push_failed>>
    /\ IF Running /\ key[t] = watch.key /\ kind = watch.kind
       THEN runPushes' = Min(runPushes + 1, MaxPushes)
       ELSE UNCHANGED runPushes
    /\ UNCHANGED <<watch, flipped, runLen, heldAtStart>>

\* thread t runs and is at the statement label
At(t, label) == t \in threads /\ pc[t] = label

GivenUp(t) ==
    firstFail' = [firstFail EXCEPT ![t] = IF @ = 0 THEN idx[t] ELSE @]

\* interval = st.session_state.get("refresh_interval", 60)
ReadInterval ==
    IF "refresh_interval" \in session_keys THEN refresh_interval ELSE DefaultInterval

\* while True: ... for symbol in SYMBOLS:
Loop(t) ==
    /\ At(t, "loop")
    /\ pc' = [pc EXCEPT ![t] = "download"]
    /\ idx' = [idx EXCEPT ![t] = 1]
    /\ processed' = [processed EXCEPT ![t] = << >>]
    /\ firstFail' = [firstFail EXCEPT ![t] = 0]
    /\ interval' = [interval EXCEPT ![t] = ReadInterval]
    /\ UNCHANGED <<arg, macd, threads, sent_signals, df, result, key, push, asleep,
                   ghost, session, dl>>

\* df = ultimate_download(...) raises
DownloadRaises(t) ==
    /\ At(t, "download")
    /\ processed' = [processed EXCEPT ![t] = Append(@, SYMBOLS[idx[t]])]
    /\ OnException(t)
    /\ GivenUp(t)
    /\ Unclassified(t)
    /\ UNCHANGED <<arg, macd, threads, sent_signals, interval, session, dl>>

\* df = ultimate_download(...) returns an empty frame or a frame
DownloadReturns(t) ==
    /\ At(t, "download")
    /\ processed' = [processed EXCEPT ![t] = Append(@, SYMBOLS[idx[t]])]
    /\ \E n \in DownloadLengths, ts \in Timestamps :
          df' = [df EXCEPT ![t] = [n |-> n, ts |-> IF n = 0 THEN -1 ELSE ts]]
    /\ pc' = [pc EXCEPT ![t] = "evaluate"]
    /\ UNCHANGED <<arg, macd, threads, sent_signals, idx, result, key, push,
                   firstFail, interval, asleep, ghost, session, dl>>

\* if df.empty
TooShortEmptyOnly(d) == d.n = 0

\* if df.empty or len(df) < 35
TooShort(d) == d.n = 0 \/ d.n < MinHistory

\* ... : continue
EvaluateSkips(t) ==
    /\ At(t, "evaluate")
    /\ TooShort(df[t])
    /\ Continue(t)
    /\ GivenUp(t)
    /\ Unclassified(t)
    /\ UNCHANGED <<arg, macd, threads, sent_signals, processed, interval, session, dl>>

\* macd_early_signal(df) or the computation of the key raises
EvaluateRaises(t) ==
    /\ At(t, "evaluate")
    /\ ~TooShort(df[t])
    /\ OnException(t)
    /\ GivenUp(t)
    /\ Unclassified(t)
    /\ UNCHANGED <<arg, macd, threads, sent_signals, processed, interval, session, dl>>

\* result = macd_early_signal(df); key = f"{symbol}_{last_ts}"
EvaluateClassifies(t) ==
    /\ At(t, "evaluate")
    /\ ~TooShort(df[t])
    /\ \E r \in Detections(df[t].n) :
          /\ result' = [result EXCEPT ![t] = r]
          /\ key' = [key EXCEPT ![t] = KeyOf(SYMBOLS[idx[t]], df[t].ts)]
          /\ Classified(t, KeyOf(SYMBOLS[idx[t]], df[t].ts), r)
    /\ df' = [df EXCEPT ![t] = NoFrame]
    /\ pc' = [pc EXCEPT ![t] = PcCheck("bull")]
    /\ UNCHANGED <<arg, macd, threads, sent_signals, idx, push, processed, firstFail,
                   interval, asleep, session, dl>>

\* if result[kind]
ShouldNotifyUnchecked(t, kind) == Flag(result[t], kind)

\* if result[kind] and st.session_state.sent_signals.get(key) != kind
ShouldNotify(t, kind) ==
    Flag(result[t], kind) /\ Get(sent_signals, key[t]) # kind

Check(t, kind) ==
    /\ At(t, PcCheck(kind))
    /\ IF ShouldNotify(t, kind)
       THEN /\ pc' = [pc EXCEPT ![t] = PcSend(kind)]
            /\ UNCHANGED <<idx, df, result, key, push, asleep>>
       ELSE After(t, kind)
    /\ UNCHANGED <<arg, macd, threads, sent_signals, processed, firstFail, interval,
                   ghost, session, dl>>

\* send_telegram(msg)
Send(t, kind) ==
    /\ At(t, PcSend(kind))
    /\ \E outcome \in PostOutcomes :
          LET p == send_telegram(outcome)
          IN  /\ Pushed(t, kind, p)
              /\ IF p.raised
                 THEN OnException(t)
                 ELSE /\ push' = [push EXCEPT ![t] = p]
                      /\ pc' = [pc EXCEPT ![t] = PcRecord(kind)]
                      /\ UNCHANGED <<idx, df, result, key, asleep>>
    /\ UNCHANGED <<arg, macd, threads, sent_signals, processed, firstFail, interval,
                   session, dl>>

\* st.session_state.sent_signals[key] = kind
Record(t, kind) ==
    /\ At(t, PcRecord(kind))
    /\ sent_signals' = Put(sent_signals, key[t], kind)
    /\ After(t, kind)
    /\ UNCHANGED <<arg, macd, threads, processed, firstFail, interval, ghost, session, dl>>

CheckBull(t)  == Check(t, "bull")
SendBull(t)   == Send(t, "bull")
RecordBull(t) == Record(t, "bull")
CheckBear(t)  == Check(t, "bear")
SendBear(t)   == Send(t, "bear")
RecordBear(t) == Record(t, "bear")

\* time.sleep(interval)
Sleep(t) ==
    /\ At(t, "sleep")
    /\ pc' = [pc EXCEPT ![t] = "loop"]
    /\ asleep' = [asleep EXCEPT ![t] = 0]
    /\ UNCHANGED <<arg, macd, threads, sent_signals, idx, df, result, key, push,
                   processed, firstFail, interval, ghost, session, dl>>

Step(t) ==
    \/ Loop(t)
    \/ DownloadRaises(t)
    \/ DownloadReturns(t)
    \/ EvaluateSkips(t)
    \/ EvaluateRaises(t)
    \/ EvaluateClassifies(t)
    \/ CheckBull(t)
    \/ SendBull(t)
    \/ RecordBull(t)
    \/ CheckBear(t)
    \/ SendBear(t)
    \/ RecordBear(t)
    \/ Sleep(t)

AllThreads == 1..NumRacers

Watches == [key : Keys, kind : Kinds, what : {"count", "run"}]

Started(ths) ==
    /\ threads = ths
    /\ sent_signals = << >>
    /\ pc = [t \in ths |-> "loop"]
    /\ idx = [t \in ths |-> 1]
    /\ df = [t \in ths |-> NoFrame]
    /\ result = [t \in ths |-> NoFlags]
    /\ key = [t \in ths |-> NoKey]
    /\ push = [t \in ths |-> NoPush]
    /\ processed = [t \in ths |-> << >>]
    /\ firstFail = [t \in ths |-> 0]
    /\ interval = [t \in ths |-> NoInterval]
    /\ asleep = [t \in ths |-> 0]
    /\ pushes = 0
    /\ push_failed = FALSE
    /\ flipped = FALSE
    /\ runLen = 0
    /\ runPushes = 0
    /\ heldAtStart = FALSE

\* the session after the first run of the script has ended
SessionReady ==
    /\ session_keys = SessionKeys
    /\ refresh_interval = refresh_options[DefaultRefreshIndex]
    /\ REFRESH_INTERVAL = refresh_options[DefaultRefreshIndex]
    /\ script = "done"
    /\ dl = NoDownload

(***************************************************************************)
(* The program: one background_monitor thread, started by the first run of *)
(* the script                                                              *)
(***************************************************************************)
\* the thread started at the script's first run
MonitorThread == 1

Init ==
    /\ arg = NoFrame
    /\ macd = NoResult
    /\ Started({MonitorThread})
    /\ SessionReady
    /\ watch \in Watches

Next ==
    \/ \E t \in AllThreads : Loop(t)
    \/ \E t \in AllThreads : DownloadRaises(t)
    \/ \E t \in AllThreads : DownloadReturns(t)
    \/ \E t \in AllThreads : EvaluateSkips(t)
    \/ \E t \in AllThreads : EvaluateRaises(t)
    \/ \E t \in AllThreads : EvaluateClassifies(t)
    \/ \E t \in AllThreads : CheckBull(t)
    \/ \E t \in AllThreads : SendBull(t)
    \/ \E t \in AllThreads : RecordBull(t)
    \/ \E t \in AllThreads : CheckBear(t)
    \/ \E t \in AllThreads : SendBear(t)
    \/ \E t \in AllThreads : RecordBear(t)
    \/ \E t \in AllThreads : Sleep(t)

Spec == Init /\ [][Next]_vars

\* the scheduler runs a thread that can take a step
SpecLive == Spec /\ WF_vars(Step(MonitorThread))

(***************************************************************************)
(* Two evaluation paths that share the ledger                              *)
(***************************************************************************)
InitConc ==
    /\ arg = NoFrame
    /\ macd = NoResult
    /\ Started(1..NumRacers)
    /\ SessionReady
    /\ watch \in {w \in Watches : w.what = "count"}

SpecConc == InitConc /\ [][Next]_vars

(***************************************************************************)
(* The detector on its own: one call of macd_early_signal on any frame     *)
(***************************************************************************)
InitDetector ==
    /\ arg \in Frames
    /\ macd = NoResult
    /\ Started({})
    /\ SessionReady
    /\ watch = NoWatch

Detect ==
    /\ arg \in Frames
    /\ macd = NoResult
    /\ macd' = [called |-> TRUE, ret |-> macd_early_signal(CloseOf(arg))]
    /\ UNCHANGED <<arg, threads, sent_signals, locals, ghost, session, dl>>

NextDetector == Detect

SpecDetector == InitDetector /\ [][NextDetector]_vars

(***************************************************************************)
(* The detector and the monitor side by side: a run is either one call of  *)
(* macd_early_signal on any frame or a run of background_monitor           *)
(***************************************************************************)
SpecEngine == (Init \/ InitDetector) /\ [][Next \/ NextDetector]_vars

(***************************************************************************)
(* The script in one session: every run selects REFRESH_INTERVAL in the    *)
(* sidebar, initialises the session state, then renders the main view; a   *)
(* rerun abandons the run in progress.  The background_monitor thread runs *)
(* beside it.                                                              *)
(***************************************************************************)
\* the thread that threading.Thread(...) creates: the first one not running
NewThread ==
    CHOOSE t \in AllThreads \ threads : \A u \in AllThreads \ threads : t <= u

\* threading.Thread(target=background_monitor, daemon=True).start()
StartThread ==
    IF AllThreads \ threads = {}
    THEN UNCHANGED <<threads, locals>>
    ELSE LET t == NewThread
         IN  /\ threads' = threads \cup {t}
             /\ pc' = (t :> "loop") @@ pc
             /\ idx' = (t :> 1) @@ idx
             /\ df' = (t :> NoFrame) @@ df
             /\ result' = (t :> NoFlags) @@ result
             /\ key' = (t :> NoKey) @@ key
             /\ push' = (t :> NoPush) @@ push
             /\ processed' = (t :> << >>) @@ processed
             /\ firstFail' = (t :> 0) @@ firstFail
             /\ interval' = (t :> NoInterval) @@ interval
             /\ asleep' = (t :> 0) @@ asleep

\* the thread is started at every run
NeedsStartAlways == TRUE

\* if "bg_started" not in st.session_state
NeedsStart == "bg_started" \notin session_keys

\* the value the selectbox returns: its default in a new session, then
\* whatever the user selected
Selectable ==
    IF script = "none" THEN {refresh_options[DefaultRefreshIndex]} ELSE RefreshChoices

\* one run of the script down to the main view: the sidebar, then the
\* session initialisation and the update of refresh_interval
ScriptRun ==
    /\ \E selected \in Selectable : REFRESH_INTERVAL' = selected
    /\ sent_signals' = IF "sent_signals" \notin session_keys THEN << >>
                       ELSE sent_signals
    /\ IF NeedsStart THEN StartThread ELSE UNCHANGED <<threads, locals>>
    /\ session_keys' = session_keys \cup {"sent_signals", "refresh_interval"}
                          \cup (IF NeedsStart THEN {"bg_started"} ELSE {})
    /\ refresh_interval' = REFRESH_INTERVAL'
    /\ script' = "view"
    /\ UNCHANGED <<arg, macd, ghost, dl>>

\* the main view stores what it shows in the ledger as well
DisplayAndRecord(i, r, ledger) ==
    IF r.bull_early THEN Put(ledger, KeyOf(SYMBOLS[i], 0), "bull")
    ELSE IF r.bear_early THEN Put(ledger, KeyOf(SYMBOLS[i], 0), "bear")
    ELSE ledger

\* st.plotly_chart, then st.success, st.error or st.info: the page changes,
\* the session state does not; the ledger after symbol i was shown
Display(i, r, ledger) == ledger

\* whether df.empty or len(df) < 35 is true of what ultimate_download returns,
\* and what macd_early_signal returns on the frames it is false of
ViewTooShort == {TooShort([n |-> n, ts |-> 0]) : n \in DownloadLengths}
ViewDetections ==
    UNION {Detections(n) : n \in {m \in DownloadLengths : ~TooShort([n |-> m, ts |-> 0])}}

\* the ledgers the loop of the main view may leave after it has loaded and
\* shown the symbols i..last, one after the other
RECURSIVE ViewFrom(_, _, _)
ViewFrom(i, last, ledger) ==
    IF i > last THEN {ledger}
    ELSE UNION {ViewFrom(i + 1, last, l) :
                  l \in (IF TRUE \in ViewTooShort THEN {ledger} ELSE {})
                          \cup (IF FALSE \in ViewTooShort
                                THEN {Display(i, r, ledger) : r \in ViewDetections}
                                ELSE {})}

\* the main view: every symbol is loaded and shown, then st.caption
MainView ==
    /\ script = "view"
    /\ sent_signals' \in ViewFrom(1, Len(SYMBOLS), sent_signals)
    /\ script' = "done"
    /\ UNCHANGED <<arg, macd, threads, locals, ghost, session_keys, refresh_interval,
                   REFRESH_INTERVAL, dl>>

\* ultimate_download or the rendering raises at some symbol: the run ends
\* with the error, the symbols before it were shown
ViewRaises ==
    /\ script = "view"
    /\ \E i \in 1..Len(SYMBOLS) : sent_signals' \in ViewFrom(1, i - 1, sent_signals)
    /\ script' = "done"
    /\ UNCHANGED <<arg, macd, threads, locals, ghost, session_keys, refresh_interval,
                   REFRESH_INTERVAL, dl>>

\* a new session: the script has not run
InitSession ==
    /\ arg = NoFrame
    /\ macd = NoResult
    /\ Started({})
    /\ session_keys = {}
    /\ refresh_interval = NoInterval
    /\ REFRESH_INTERVAL = NoInterval
    /\ script = "none"
    /\ dl = NoDownload
    /\ watch = [key |-> KeyOf(SYMBOLS[1], 0), kind |-> "bull", what |-> "count"]

NextSession ==
    \/ ScriptRun
    \/ MainView
    \/ ViewRaises
    \/ Next

SpecSession == InitSession /\ [][NextSession]_vars

(***************************************************************************)
(* ultimate_download(ticker, period, interval) on its own: three sources   *)
(* of bars, Ticker.history, yf.download and the CSV request.  A frame is   *)
(* known by its number of rows; 0 rows is the empty frame.                 *)
(***************************************************************************)
\* rows a source may deliver
SourceRows == {0, MinRows - 1, MinRows, MinHistory}
\* what a call of a source does: it raises or returns a frame; the CSV
\* request may also answer with a status other than 200
CallOutcomes == {[kind |-> "raise", rows |-> 0]}
                   \cup {[kind |-> "frame", rows |-> n] : n \in SourceRows}
CsvOutcomes == CallOutcomes \cup {[kind |-> "status", rows |-> 0]}
\* rows the last dropna() may remove
MaxNaRows == 1
\* tail(200)
CsvTail == 200

\* hist.empty
Empty(hist) == hist = 0
\* hist.empty or len(hist) < 20
EmptyOrShort(hist) == Empty(hist) \/ hist < MinRows

\* first strategy: hist = t.history(...); a short or empty answer raises
\* ValueError, which "except: pass" swallows with hist already assigned
TryHistory ==
    /\ dl.pc = "history"
    /\ dl' = [dl EXCEPT !.pc = "download",
                        !.tried = Append(@, "history"),
                        !.hist = IF dl.src.history.kind = "frame"
                                 THEN dl.src.history.rows ELSE @]
    /\ UNCHANGED <<arg, macd, threads, sent_signals, locals, ghost, session>>

\* second strategy, under "if hist.empty": hist = yf.download(...)
TryDownload ==
    /\ dl.pc = "download"
    /\ dl' = IF Empty(dl.hist)
             THEN [dl EXCEPT !.pc = "csv",
                             !.tried = Append(@, "download"),
                             !.hist = IF dl.src.download.kind = "frame"
                                      THEN dl.src.download.rows ELSE @]
             ELSE [dl EXCEPT !.pc = "csv"]
    /\ UNCHANGED <<arg, macd, threads, sent_signals, locals, ghost, session>>

\* last resort, under "if hist.empty or len(hist) < 20": the CSV request;
\* hist is replaced when the answer is 200 and the table read is not empty
TryCsv ==
    /\ dl.pc = "csv"
    /\ dl' = IF EmptyOrShort(dl.hist)
             THEN [dl EXCEPT !.pc = "finish",
                             !.tried = Append(@, "csv"),
                             !.hist = IF dl.src.csv.kind = "frame" /\ dl.src.csv.rows > 0
                                      THEN Min(dl.src.csv.rows, CsvTail) ELSE @]
             ELSE [dl EXCEPT !.pc = "finish"]
    /\ UNCHANGED <<arg, macd, threads, sent_signals, locals, ghost, session>>

\* if hist.empty: return pd.DataFrame(); hist = hist[[...]].dropna();
\* return hist if len(hist) >= 20 else pd.DataFrame()
Finish ==
    /\ dl.pc = "finish"
    /\ LET rows == IF dl.hist > dl.src.na THEN dl.hist - dl.src.na ELSE 0
       IN  dl' = [dl EXCEPT !.pc = "returned",
                            !.ret = IF Empty(dl.hist) THEN 0
                                    ELSE IF rows >= MinRows THEN rows ELSE 0]
    /\ UNCHANGED <<arg, macd, threads, sent_signals, locals, ghost, session>>

InitDownload ==
    /\ arg = NoFrame
    /\ macd = NoResult
    /\ Started({})
    /\ session_keys = SessionKeys
    /\ refresh_interval = refresh_options[DefaultRefreshIndex]
    /\ REFRESH_INTERVAL = refresh_options[DefaultRefreshIndex]
    /\ script = "view"
    /\ watch = NoWatch
    /\ \E h \in CallOutcomes, d \in CallOutcomes, c \in CsvOutcomes, na \in 0..MaxNaRows :
          dl = [pc |-> "history", hist |-> 0, tried |-> << >>, ret |-> -1,
                src |-> [history |-> h, download |-> d, csv |-> c, na |-> na]]

NextDownload ==
    \/ TryHistory
    \/ TryDownload
    \/ TryCsv
    \/ Finish

SpecDownload == InitDownload /\ [][NextDownload]_vars

(***************************************************************************)
(* Claims                                                                  *)
(***************************************************************************)

\* C1: for every ledger key and kind, send_telegram is invoked at most once
\* for that key and kind, however the classification of the bar changes from
\* one poll cycle to the next.
C1_AtMostOncePerKeyAndKind == Counting => pushes <= 1

\* C2 as stated: when successive poll cycles classify the same key as the
\* same kind, send_telegram is invoked exactly once in those cycles.
C2_ExactlyOnceInRun == (Running /\ runLen >= 2) => runPushes = 1

\* C2 as amended: when successive poll cycles classify the same key as the
\* same kind, send_telegram is invoked at most once in those cycles, in the
\* first of them, and exactly once when the ledger did not hold that kind
\* for the key as the first of them began (none if it did).
C2_OnceInRunUnlessHeld ==
    (Running /\ runLen >= 2) => runPushes = (IF heldAtStart THEN 0 ELSE 1)

\* a second successive cycle with the same classification has finished and
\* the notification went out once, in the first cycle
C2_Witness ==
    /\ Running
    /\ runLen >= 2
    /\ ~heldAtStart
    /\ runPushes = 1
    /\ pc[MonitorThread] = "sleep"

C4_LedgerEntriesAreFinal ==
    [][\A k \in DOMAIN sent_signals :
          k \in DOMAIN sent_signals' /\ sent_signals'[k] = sent_signals[k]]_vars

\* C5: a call of macd_early_signal never returns bull_early and bear_early
\* both true.
C5_NeverBothKinds ==
    macd.called => ~(macd.ret.bull_early /\ macd.ret.bear_early)

\* a call returned bull_early although a bearish pattern was present as well
C5_Witness ==
    /\ macd.called
    /\ arg.n >= 35
    /\ macd.ret.bull_early
    /\ ~macd.ret.bear_early
    /\ LET n == arg.n
           d == macd.ret.dif
           h == macd.ret.histogram
       IN  hook_down(d[n - 2], d[n - 1], d[n]) \/ shrink_red(h[n - 2], h[n - 1], h[n])

\* C6: for a series of at least 35 bars, bull_early is true iff (hook_up or
\* shrink_green) and the proximity gate holds and d0 < s0, and bear_early iff
\* (hook_down or shrink_red) and the gate holds and d0 > s0, where hook_up is
\* d1 <= d2, d0 > d1 and d0 - d1 >= 0.6 * |d1 - d2| and hook_down is the same
\* with the signs reversed.
C6_Classification ==
    (macd.called /\ arg.n >= 35) =>
        LET n  == arg.n
            d2 == macd.ret.dif[n - 2]
            d1 == macd.ret.dif[n - 1]
            d0 == macd.ret.dif[n]
            s0 == macd.ret.signal[n]
            h2 == macd.ret.histogram[n - 2]
            h1 == macd.ret.histogram[n - 1]
            h0 == macd.ret.histogram[n]
            up   == d1 <= d2 /\ d0 > d1 /\ 10 * (d0 - d1) >= 6 * Abs(d1 - d2)
            down == d1 >= d2 /\ d0 < d1 /\ 10 * (d1 - d0) >= 6 * Abs(d1 - d2)
            gate == very_close(macd.ret.dif, macd.ret.signal)
        IN  /\ macd.ret.bull_early
                <=> ((up \/ shrink_green(h2, h1, h0)) /\ gate /\ d0 < s0)
            /\ macd.ret.bear_early
                <=> ((down \/ shrink_red(h2, h1, h0)) /\ gate /\ d0 > s0)

\* a hook-up with the gate satisfied and d0 >= s0 that was not classified
\* bullish-early
C6_Witness ==
    /\ macd.called
    /\ arg.n >= 35
    /\ LET n == arg.n
           d == macd.ret.dif
       IN  /\ hook_up(d[n - 2], d[n - 1], d[n])
           /\ d[n] >= macd.ret.signal[n]
    /\ very_close(macd.ret.dif, macd.ret.signal)
    /\ ~macd.ret.bull_early

\* C7: on a series shorter than 35 bars macd_early_signal returns neither
\* bull_early nor bear_early, and when ultimate_download returned an empty or
\* too short frame background_monitor goes on to the next symbol: it raises
\* nothing, sends nothing and leaves the ledger as it is.
C7_InsufficientHistory ==
    /\ []((macd.called /\ arg.n < 35)
            => (~macd.ret.bull_early /\ ~macd.ret.bear_early))
    /\ [][\A t \in threads :
            (pc[t] = "evaluate" /\ df[t].n < 35 /\ pc'[t] # pc[t]) =>
                /\ pc'[t] = (IF idx[t] < Len(SYMBOLS) THEN "download" ELSE "sleep")
                /\ idx'[t] = idx[t] + 1
                /\ sent_signals' = sent_signals
                /\ pushes' = pushes]_vars

\* the monitor holds a frame of 1 to 34 bars while the ledger has an entry
C7_Witness ==
    \E t \in threads :
        /\ pc[t] = "evaluate"
        /\ df[t].n > 0
        /\ df[t].n < 35
        /\ sent_signals # << >>

\* C8: in every poll cycle each symbol of SYMBOLS is entered exactly once,
\* in list order, whatever happened to the symbols before it.
C8_EverySymbolEachCycle ==
    \A t \in threads :
        /\ pc[t] = "sleep" => processed[t] = SYMBOLS
        /\ pc[t] \notin {"loop", "sleep", "terminated"}
              => processed[t] = SubSeq(SYMBOLS, 1, Len(processed[t]))

\* a cycle has ended whose first symbol was given up
C8_Witness ==
    \E t \in threads :
        /\ pc[t] = "sleep"
        /\ firstFail[t] = 1
        /\ processed[t] = SYMBOLS

\* C9: the monitor never stops: it starts a poll cycle and goes to sleep
\* again and again, and no failure of a symbol ends the thread.
C9_NeverStops ==
    /\ []<>(pc[MonitorThread] = "loop")
    /\ []<>(pc[MonitorThread] = "sleep")
    /\ [](pc[MonitorThread] # "terminated")

\* a new cycle is about to start after a cycle in which a symbol was given up
C9_Witness == pc[MonitorThread] = "loop" /\ firstFail[MonitorThread] > 0

\* C10: a failed delivery is swallowed by send_telegram (every chat id is
\* tried, nothing is raised), the ledger records the key with the kind in the
\* same cycle, and a notification whose delivery failed is never sent again
\* for that key and kind.
C10_FailedPushIsNeverRetried ==
    /\ [](\A t \in threads :
            pc[t] \in {"record_bull", "record_bear"}
                => (push[t].posts = NumChats /\ ~push[t].raised))
    /\ [][\A t \in threads :
            (pc[t] = "record_bull" /\ pc'[t] # pc[t])
                => Get(sent_signals', key[t]) = "bull"]_vars
    /\ [][\A t \in threads :
            (pc[t] = "record_bear" /\ pc'[t] # pc[t])
                => Get(sent_signals', key[t]) = "bear"]_vars
    /\ [][(Counting /\ push_failed) => pushes' = pushes]_vars

\* the close prices of frame f are all the same
IsConstant(f) == \A i \in 1..f.n : CloseOf(f)[i] = CloseOf(f)[1]

\* C11: for every all-constant close series, of any length, the difference
\* line and the histogram are 0 at every index and macd_early_signal returns
\* neither bull_early nor bear_early.
C11_ConstantSeriesIsFlat ==
    (macd.called /\ IsConstant(arg)) =>
        /\ \A i \in 1..arg.n : macd.ret.dif[i] = 0 /\ macd.ret.histogram[i] = 0
        /\ ~macd.ret.bull_early
        /\ ~macd.ret.bear_early

\* a constant series of at least 35 bars went through the detector
C11_Witness ==
    /\ macd.called
    /\ arg.n >= 35
    /\ IsConstant(arg)
    /\ macd.ret.dif[arg.n] = 0
    /\ ~macd.ret.bull_early

\* the last three histogram values of the call that returned
LastHistogram ==
    LET n == arg.n
        h == macd.ret.histogram
    IN  <<h[n - 2], h[n - 1], h[n]>>

\* C12: whenever shrink_green is true the histogram is negative and weakening
\* toward zero on the last bar: h2 < h1 < h0 < 0.
C12_ShrinkGreenIsWeakening ==
    (macd.called /\ arg.n >= MinHistory) =>
        LET h == LastHistogram
        IN  shrink_green(h[1], h[2], h[3]) =>
                (h[1] < h[2] /\ h[2] < h[3] /\ h[3] < 0)

Sign(v) == IF v > 0 THEN 1 ELSE IF v < 0 THEN -1 ELSE 0

\* C18: the sign of the last histogram value equals the sign of d0 - s0, so
\* shrink_red implies d0 > s0 and shrink_green implies d0 < s0: a shrink
\* pattern is never blocked by the directional constraint and never
\* contributes to the opposite classification.
C18_ShrinkAgreesWithDirection ==
    (macd.called /\ arg.n >= MinHistory) =>
        LET n   == arg.n
            r   == macd.ret
            h   == LastHistogram
            d0  == r.dif[n]
            s0  == r.signal[n]
            red   == shrink_red(h[1], h[2], h[3])
            green == shrink_green(h[1], h[2], h[3])
            near  == very_close(r.dif, r.signal)
        IN  /\ \A i \in 1..n : r.histogram[i] = 2 * (r.dif[i] - r.signal[i])
            /\ Sign(h[3]) = Sign(d0 - s0)
            /\ red => (d0 > s0 /\ ~r.bull_early /\ (near => r.bear_early))
            /\ green => (d0 < s0 /\ ~r.bear_early /\ (near => r.bull_early))

\* a shrinking red histogram alone made the call return bear_early
C18_Witness ==
    /\ macd.called
    /\ arg.n >= MinHistory
    /\ LET n == arg.n
           h == LastHistogram
           d == macd.ret.dif
       IN  /\ shrink_red(h[1], h[2], h[3])
           /\ ~hook_down(d[n - 2], d[n - 1], d[n])
           /\ macd.ret.bear_early

\* C13: a ledger entry is written only after the notifier was invoked for
\* it: sent_signals[key] = kind implies an earlier call of send_telegram for
\* that key and kind, and within a cycle the order is check, send, record.
C13_RecordedOnlyAfterSend ==
    /\ [](Counting /\ Get(sent_signals, watch.key) = watch.kind => pushes >= 1)
    /\ [][\A t \in threads : \A kind \in Kinds :
            /\ (pc'[t] = PcSend(kind) /\ pc[t] # PcSend(kind))
                  => pc[t] = PcCheck(kind)
            /\ (pc'[t] = PcRecord(kind) /\ pc[t] # PcRecord(kind))
                  => pc[t] = PcSend(kind)]_vars
    /\ [][sent_signals' # sent_signals =>
            \E t \in threads : \E kind \in Kinds :
                /\ pc[t] = PcRecord(kind)
                /\ push[t].posts = NumChats
                /\ sent_signals' = Put(sent_signals, key[t], kind)]_vars

\* the ledger holds the observed kind for the observed key after one call of
\* send_telegram for it
C13_Witness ==
    /\ Counting
    /\ Get(sent_signals, watch.key) = watch.kind
    /\ pushes = 1

\* C14: a change of the poll cadence never alters a wait in progress: the
\* sleep that ends a cycle lasts the refresh interval read as that cycle
\* began, and a value written while the task evaluates or sleeps is first
\* used by a later cycle.
C14_CadenceChangesAtCycleBoundary ==
    [][\A t \in threads :
          /\ (pc[t] = "loop" /\ pc'[t] # "loop") => interval'[t] = refresh_interval
          /\ pc[t] # "loop" => interval'[t] = interval[t]
          /\ (pc[t] # "sleep" /\ pc'[t] = "sleep") => asleep'[t] = interval[t]
          /\ (pc[t] = "sleep" /\ pc'[t] = "sleep") => asleep'[t] = asleep[t]
          /\ refresh_interval' # refresh_interval =>
                (pc'[t] = pc[t] /\ interval'[t] = interval[t] /\ asleep'[t] = asleep[t])]_vars

\* the task sleeps for the interval it read although the session holds
\* another one by now
C14_Witness ==
    \E t \in threads :
        /\ pc[t] = "sleep"
        /\ asleep[t] = interval[t]
        /\ refresh_interval # interval[t]

\* C16: the main view's loop leaves the ledger unchanged and never invokes
\* the notifier; only background_monitor writes sent_signals or calls
\* send_telegram, for any number of reruns.
C16_MainViewLeavesLedger ==
    /\ [][(script = "view" /\ script' = "done") =>
            /\ sent_signals' = sent_signals
            /\ pushes' = pushes
            /\ \A t \in threads : push'[t] = push[t] /\ pc'[t] = pc[t]]_vars
    /\ [][(sent_signals' # sent_signals \/ pushes' # pushes) =>
            \E t \in threads :
                /\ pc[t] \in {PcSend(k) : k \in Kinds} \cup {PcRecord(k) : k \in Kinds}
                /\ pc'[t] # pc[t]]_vars

\* the main view of a rerun ended while the ledger held an entry
C16_Witness ==
    /\ refresh_interval # refresh_options[DefaultRefreshIndex]
    /\ script = "done"
    /\ sent_signals # << >>
    /\ pushes >= 1

\* C17: any number of reruns starts at most one background_monitor thread:
\* the thread is started only when bg_started is absent, bg_started is set
\* with the start and never cleared, and sent_signals is initialised to
\* empty once and never reset by a rerun.
C17_OneThreadPerSession ==
    /\ [](Cardinality(threads) <= 1)
    /\ []("bg_started" \in session_keys <=> threads # {})
    /\ [][/\ session_keys \subseteq session_keys'
          /\ threads \subseteq threads'
          /\ threads' # threads =>
                ("bg_started" \notin session_keys /\ "bg_started" \in session_keys')
          /\ "sent_signals" \in session_keys' \ session_keys => sent_signals' = << >>
          /\ (sent_signals' # sent_signals /\ "sent_signals" \in session_keys) =>
                DOMAIN sent_signals \subseteq DOMAIN sent_signals']_vars

\* a rerun has begun with one thread running and an entry in the ledger
C17_Witness ==
    /\ refresh_interval # refresh_options[DefaultRefreshIndex]
    /\ threads = {MonitorThread}
    /\ "bg_started" \in session_keys
    /\ sent_signals # << >>
    /\ script = "view"

\* the first strategy raised, or returned an empty frame or fewer than 20 rows
FirstStrategyFailed ==
    \/ dl.src.history.kind = "raise"
    \/ dl.src.history.rows < 20

\* C15: whenever the first strategy fails (raises, returns an empty frame or
\* fewer than 20 rows) the second strategy is attempted before the CSV
\* request; the strategies are tried in the order history, download, CSV.
C15_SecondBeforeLastResort ==
    (dl.pc \in {"finish", "returned"} /\ FirstStrategyFailed) =>
        /\ Len(dl.tried) >= 2
        /\ dl.tried[1] = "history"
        /\ dl.tried[2] = "download"
        /\ Len(dl.tried) = 3 => dl.tried[3] = "csv"
====
